---- MODULE Spec2Model ----
(***************************************************************************)
(* Model of SearchQueryParser-js: the tokenizer, the recursive-descent     *)
(* parser (SearchQueryParser), the filter tree (FilterGroup) and the leaf  *)
(* filter (Filter), with their evaluation against records and their        *)
(* rendering back to text.                                                 *)
(*                                                                         *)
(* A JavaScript string is a sequence of one-character strings, so that     *)
(* tokenizing, quoting, trimming, lower-casing and the regular expression  *)
(* of Filter.parse are computed character by character.                    *)
(***************************************************************************)
EXTENDS Integers, Sequences, FiniteSets, TLC

VARIABLES pc, query, input, tokens, rootGroup, endIndex, leaf, entry, result, string, reparsed, call

vars == <<pc, query, input, tokens, rootGroup, endIndex, leaf, entry, result, string, reparsed, call>>

(***************************************************************************)
(* Bounds of the model.                                                    *)
(***************************************************************************)
MaxQueryLen == 4
MaxRawLen == 5
MaxTokens == 5
MaxAdds == 3

(***************************************************************************)
(* Characters and strings.                                                 *)
(***************************************************************************)
Quote == "\""

\* the characters \w of the regular expression that the model uses
WordChars == {"a", "b", "t", "A", "B"}

\* JavaScript null (Filter.field) and a value not yet computed; neither is a
\* string of the model, whose elements are single characters
Null == <<"null">>
None == <<"none">>

\* String.prototype.toLowerCase, character by character
LowerChar(c) == IF c = "A" THEN "a" ELSE IF c = "B" THEN "b" ELSE c

ToLowerCase(s) == [i \in 1..Len(s) |-> LowerChar(s[i])]

\* String.prototype.includes
Includes(value, term) ==
    \E i \in 0..(Len(value) - Len(term)) : SubSeq(value, i + 1, i + Len(term)) = term

StartsWith(s, c) == Len(s) >= 1 /\ s[1] = c

EndsWith(s, c) == Len(s) >= 1 /\ s[Len(s)] = c

\* String.prototype.slice(from) and slice(1, -1)
SliceFrom(s, from) == SubSeq(s, from + 1, Len(s))

Slice1Minus1(s) == SubSeq(s, 2, Len(s) - 1)

RECURSIVE TrimStart(_)
TrimStart(s) == IF Len(s) >= 1 /\ s[1] = " " THEN TrimStart(Tail(s)) ELSE s

RECURSIVE TrimEnd(_)
TrimEnd(s) == IF Len(s) >= 1 /\ s[Len(s)] = " " THEN TrimEnd(SubSeq(s, 1, Len(s) - 1)) ELSE s

\* String.prototype.trim (the only white space of the model is the space)
Trim(s) == TrimEnd(TrimStart(s))

\* Array.prototype.join
RECURSIVE Join(_, _)
Join(list, joiner) ==
    IF Len(list) = 0 THEN <<>>
    ELSE IF Len(list) = 1 THEN list[1]
    ELSE list[1] \o joiner \o Join(Tail(list), joiner)

(***************************************************************************)
(* Filter: one leaf of the tree.                                           *)
(***************************************************************************)
\* new Filter(field, term, operator)
Filter(field, term, operator) ==
    [kind |-> "filter", field |-> field, term |-> term, operator |-> operator]

IsFilter(item) == item.kind = "filter"

\* the matches of /^(\w+)([:=])"?(.+?)"?$/ in term: n characters of \w, the
\* operator, q1 opening quotes, k characters of ., q2 closing quotes
FieldMatches(term) ==
    {m \in [n : 1..Len(term), q1 : {0, 1}, k : 1..Len(term), q2 : {0, 1}] :
        /\ m.n + 1 + m.q1 + m.k + m.q2 = Len(term)
        /\ \A i \in 1..m.n : term[i] \in WordChars
        /\ term[m.n + 1] \in {":", "="}
        /\ m.q1 = 1 => term[m.n + 2] = Quote
        /\ m.q2 = 1 => term[Len(term)] = Quote}

\* the match the backtracking engine returns: \w+ and both "? are greedy,
\* .+? is lazy, and earlier quantifiers take precedence over later ones
Prefers(m1, m2) ==
    \/ m1.n > m2.n
    \/ m1.n = m2.n /\ m1.q1 > m2.q1
    \/ m1.n = m2.n /\ m1.q1 = m2.q1 /\ m1.k < m2.k
    \/ m1.n = m2.n /\ m1.q1 = m2.q1 /\ m1.k = m2.k /\ m1.q2 > m2.q2

fieldMatch(term) ==
    CHOOSE m \in FieldMatches(term) : \A o \in FieldMatches(term) : o = m \/ Prefers(m, o)

\* Filter.parse
FilterParse(term) ==
    IF FieldMatches(term) # {}
    THEN LET m == fieldMatch(term) IN
         Filter(SubSeq(term, 1, m.n),
                SubSeq(term, m.n + 2 + m.q1, m.n + 1 + m.q1 + m.k),
                term[m.n + 1])
    ELSE IF StartsWith(term, Quote) /\ EndsWith(term, Quote)
    THEN Filter(Null, Slice1Minus1(term), ":")
    ELSE Filter(Null, term, ":")

\* Filter.equals
FilterEquals(f, otherFilter) ==
    /\ f.field = otherFilter.field
    /\ f.term = otherFilter.term
    /\ f.operator = otherFilter.operator

\* Filter.toString
FilterToString(f) ==
    (IF f.field # Null THEN f.field \o <<f.operator>> ELSE <<>>)
    \o (IF Includes(Trim(f.term), <<" ">>) THEN <<Quote>> \o f.term \o <<Quote>> ELSE f.term)

\* Filter.matchField
matchField(f, value) ==
    IF f.operator = "=" THEN ToLowerCase(value) = ToLowerCase(f.term)
    ELSE Includes(ToLowerCase(value), ToLowerCase(f.term))

(***************************************************************************)
(* Records (entries): a function from property names to values; a value is *)
(* a string, an array of values, or something else (a number, null, ...).  *)
(***************************************************************************)
StrVal(s) == [type |-> "string", str |-> s, items |-> <<>>]
ArrVal(items) == [type |-> "array", str |-> <<>>, items |-> items]
OtherVal == [type |-> "other", str |-> <<>>, items |-> <<>>]

IsStringVal(v) == v.type = "string"

\* Object.values(entry), in some order
RECURSIVE SetToSeq(_)
SetToSeq(S) == IF S = {} THEN <<>> ELSE LET x == CHOOSE y \in S : TRUE IN <<x>> \o SetToSeq(S \ {x})

ObjectValues(e) == LET keys == SetToSeq(DOMAIN e) IN [i \in 1..Len(keys) |-> e[keys[i]]]

\* flatMap step of getFields: the strings one property value contributes
FlatValue(v) ==
    IF v.type = "string" THEN <<v.str>>
    ELSE IF v.type = "array"
    THEN LET strs == SelectSeq(v.items, IsStringVal) IN [i \in 1..Len(strs) |-> strs[i].str]
    ELSE <<>>

RECURSIVE FlatMap(_)
FlatMap(values) == IF Len(values) = 0 THEN <<>> ELSE FlatValue(values[1]) \o FlatMap(Tail(values))

\* Boolean(s) of a string: the empty string is falsy
Truthy(s) == Len(s) > 0

MapLower(strs) == [i \in 1..Len(strs) |-> ToLowerCase(strs[i])]

\* getFields without ".filter(Boolean)": empty strings are kept
getFieldsKeepEmpty(f, e) ==
    IF f.field = Null \/ f.field = <<>>
    THEN MapLower(FlatMap(ObjectValues(e)))
    ELSE IF ToLowerCase(f.field) \in DOMAIN e
    THEN LET value == e[ToLowerCase(f.field)] IN
         IF value.type = "array" THEN MapLower(FlatValue(value))
         ELSE IF value.type = "string" THEN <<ToLowerCase(value.str)>>
         ELSE <<>>
    ELSE <<>>

\* Filter.getFields
getFields(f, e) ==
    IF f.field = Null \/ f.field = <<>>
    THEN MapLower(SelectSeq(FlatMap(ObjectValues(e)), Truthy))
    ELSE IF ToLowerCase(f.field) \in DOMAIN e
    THEN LET value == e[ToLowerCase(f.field)] IN
         IF value.type = "array" THEN MapLower(FlatValue(value))
         ELSE IF value.type = "string" THEN <<ToLowerCase(value.str)>>
         ELSE <<>>
    ELSE <<>>

\* Filter.matchEntry
matchEntry(f, e) ==
    LET values == getFields(f, e) IN \E i \in 1..Len(values) : matchField(f, values[i])

(***************************************************************************)
(* FilterGroup: an inner node of the tree.                                 *)
(***************************************************************************)
\* new FilterGroup(mode)
FilterGroup(mode) ==
    [kind |-> "group", include |-> <<>>, exclude |-> <<>>, mode |-> mode]

IsFilterGroup(item) == item.kind = "group"

\* FilterGroup.add
add(group, filterOrGroup, isExclude) ==
    IF isExclude
    THEN [group EXCEPT !.exclude = Append(@, filterOrGroup)]
    ELSE [group EXCEPT !.include = Append(@, filterOrGroup)]

\* addWithMode that moves the include list on every change of mode, also
\* when the item goes to the exclude list
addWithModeAnyList(group, filterOrGroup, mode, isExclude) ==
    LET moved ==
            IF group.mode # mode
            THEN LET subgroup == [FilterGroup(group.mode) EXCEPT !.include = group.include]
                 IN [group EXCEPT !.include = <<subgroup>>, !.mode = mode]
            ELSE group
    IN add(moved, filterOrGroup, isExclude)

\* FilterGroup.addWithMode: on a change of mode the include list moves to a
\* new subgroup that carries the old mode
addWithMode(group, filterOrGroup, mode, isExclude) ==
    LET moved ==
            IF ~isExclude /\ group.mode # mode
            THEN LET subgroup == [FilterGroup(group.mode) EXCEPT !.include = group.include]
                 IN [group EXCEPT !.include = <<subgroup>>, !.mode = mode]
            ELSE group
    IN add(moved, filterOrGroup, isExclude)

\* FilterGroup.remove: the callback of list.filter returns undefined for an
\* item that is not a Filter
remove(group, filter, isExclude) ==
    LET list == IF isExclude THEN group.exclude ELSE group.include
        keep(item) == IF ~IsFilter(item) THEN FALSE ELSE ~FilterEquals(item, filter)
    IN IF isExclude
       THEN [group EXCEPT !.exclude = SelectSeq(list, keep)]
       ELSE [group EXCEPT !.include = SelectSeq(list, keep)]

\* FilterGroup.hasFilter
RECURSIVE hasFilter(_, _, _, _)
hasFilter(group, filter, isExclude, nestedEntries) ==
    LET list == IF isExclude THEN group.exclude ELSE group.include
        found(item) ==
            IF IsFilter(item) THEN FilterEquals(item, filter)
            ELSE IF IsFilterGroup(item) /\ nestedEntries
            THEN hasFilter(item, filter, isExclude, nestedEntries)
            ELSE FALSE
    IN \E i \in 1..Len(list) : found(list[i])

RECURSIVE matchesEntry(_, _)

\* matchesEntry with the exclude list combined by the mode of the group
matchesEntryExcludeByMode(group, e) ==
    LET match(item) == IF IsFilterGroup(item) THEN matchesEntry(item, e) ELSE matchEntry(item, e)
        includesMatch ==
            IF Len(group.include) = 0 THEN TRUE
            ELSE IF group.mode = "AND"
            THEN \A i \in 1..Len(group.include) : match(group.include[i])
            ELSE \E i \in 1..Len(group.include) : match(group.include[i])
        excludesMatch ==
            IF Len(group.exclude) = 0 THEN TRUE
            ELSE IF group.mode = "AND"
            THEN \A i \in 1..Len(group.exclude) : ~match(group.exclude[i])
            ELSE \E i \in 1..Len(group.exclude) : ~match(group.exclude[i])
    IN includesMatch /\ excludesMatch

\* FilterGroup.matchesEntry
matchesEntry(group, e) ==
    LET match(item) == IF IsFilterGroup(item) THEN matchesEntry(item, e) ELSE matchEntry(item, e)
        includesMatch ==
            IF Len(group.include) = 0 THEN TRUE
            ELSE IF group.mode = "AND"
            THEN \A i \in 1..Len(group.include) : match(group.include[i])
            ELSE \E i \in 1..Len(group.include) : match(group.include[i])
        excludesMatch == \A i \in 1..Len(group.exclude) : ~match(group.exclude[i])
    IN includesMatch /\ excludesMatch

RECURSIVE GroupToString(_)

\* toString with every nested group in parentheses, whatever the length of
\* its list
GroupToStringAlwaysWrap(group) ==
    LET itemToString(item) == IF IsFilterGroup(item) THEN GroupToString(item) ELSE FilterToString(item)
        itemMapper(item, itemList) ==
            IF IsFilterGroup(item)
            THEN <<"(">> \o itemToString(item) \o <<")">>
            ELSE itemToString(item)
        joiner == IF group.mode = "AND" THEN <<" ">> ELSE <<"~">>
        includes == Join([i \in 1..Len(group.include) |-> itemMapper(group.include[i], group.include)], joiner)
        excludes == Join([i \in 1..Len(group.exclude) |-> <<"-">> \o itemMapper(group.exclude[i], group.exclude)], <<" ">>)
    IN Join(SelectSeq(<<includes, excludes>>, Truthy), <<" ">>)

\* FilterGroup.toString
GroupToString(group) ==
    LET itemToString(item) == IF IsFilterGroup(item) THEN GroupToString(item) ELSE FilterToString(item)
        itemMapper(item, itemList) ==
            IF IsFilterGroup(item) /\ Len(itemList) > 1
            THEN <<"(">> \o itemToString(item) \o <<")">>
            ELSE itemToString(item)
        joiner == IF group.mode = "AND" THEN <<" ">> ELSE <<"~">>
        includes == Join([i \in 1..Len(group.include) |-> itemMapper(group.include[i], group.include)], joiner)
        excludes == Join([i \in 1..Len(group.exclude) |-> <<"-">> \o itemMapper(group.exclude[i], group.exclude)], <<" ">>)
    IN Join(SelectSeq(<<includes, excludes>>, Truthy), <<" ">>)

(***************************************************************************)
(* SearchQueryParser: tokenizer and parser.                                *)
(***************************************************************************)
\* the callback without the test of inQuotes: brackets, tildes and spaces
\* split the token inside quotes as well
TokenizeCharSplitInQuotes(st, character) ==
    IF character = Quote
    THEN [st EXCEPT !.buffer = Append(@, character), !.inQuotes = ~@]
    ELSE IF character \in {"(", ")", "~", " "}
    THEN LET flushed == IF Trim(st.buffer) # <<>> THEN Append(st.tokens, Trim(st.buffer)) ELSE st.tokens
         IN [st EXCEPT !.tokens = IF character # " " THEN Append(flushed, <<character>>) ELSE flushed,
                       !.buffer = <<>>]
    ELSE [st EXCEPT !.buffer = Append(@, character)]

\* the body of the forEach callback of tokenize, for one character; the
\* state of the loop is the triple tokens, buffer, inQuotes
TokenizeChar(st, character) ==
    IF character = Quote
    THEN [st EXCEPT !.buffer = Append(@, character), !.inQuotes = ~@]
    ELSE IF ~st.inQuotes /\ character \in {"(", ")", "~", " "}
    THEN LET flushed == IF Trim(st.buffer) # <<>> THEN Append(st.tokens, Trim(st.buffer)) ELSE st.tokens
         IN [st EXCEPT !.tokens = IF character # " " THEN Append(flushed, <<character>>) ELSE flushed,
                       !.buffer = <<>>]
    ELSE [st EXCEPT !.buffer = Append(@, character)]

RECURSIVE TokenizeLoop(_, _, _)
TokenizeLoop(q, i, st) ==
    IF i > Len(q) THEN st ELSE TokenizeLoop(q, i + 1, TokenizeChar(st, q[i]))

\* SearchQueryParser.tokenize
tokenize(q) ==
    LET st == TokenizeLoop(q, 1, [tokens |-> <<>>, buffer |-> <<>>, inQuotes |-> FALSE])
    IN IF Trim(st.buffer) # <<>> THEN Append(st.tokens, Trim(st.buffer)) ELSE st.tokens

\* SearchQueryParser.parseTokens: ParseLoop is the for loop at index i
\* (indices count from 0 as in the source), parseTokens the whole call;
\* both return the pair <<group, index>>
RECURSIVE ParseLoop(_, _, _, _), parseTokens(_, _)

\* the loop with a mode that leaks: a subgroup that ends in OR mode switches
\* the enclosing group to OR as well
ParseLoopModeLeak(toks, i, group, currentMode) ==
    IF i >= Len(toks)
    THEN <<[group EXCEPT !.mode = currentMode], Len(toks)>>
    ELSE LET token == toks[i + 1] IN
         IF token = <<"~">>
         THEN ParseLoop(toks, i + 1, group, "OR")
         ELSE IF token = <<"(">>
         THEN LET sub == parseTokens(toks, i + 1)
              IN ParseLoop(toks, sub[2] + 1, add(group, sub[1], FALSE),
                           IF sub[1].mode = "OR" THEN "OR" ELSE currentMode)
         ELSE IF token = <<")">>
         THEN <<[group EXCEPT !.mode = currentMode], i>>
         ELSE LET isExclude == StartsWith(token, "-")
                  raw == IF isExclude THEN SliceFrom(token, 1) ELSE token
              IN ParseLoop(toks, i + 1, add(group, FilterParse(raw), isExclude), currentMode)

\* the loop without "i = nextIndex": after a subgroup it goes on at the token
\* that follows the "("
ParseLoopNoSkip(toks, i, group, currentMode) ==
    IF i >= Len(toks)
    THEN <<[group EXCEPT !.mode = currentMode], Len(toks)>>
    ELSE LET token == toks[i + 1] IN
         IF token = <<"~">>
         THEN ParseLoop(toks, i + 1, group, "OR")
         ELSE IF token = <<"(">>
         THEN LET sub == parseTokens(toks, i + 1)
              IN ParseLoop(toks, i + 1, add(group, sub[1], FALSE), currentMode)
         ELSE IF token = <<")">>
         THEN <<[group EXCEPT !.mode = currentMode], i>>
         ELSE LET isExclude == StartsWith(token, "-")
                  raw == IF isExclude THEN SliceFrom(token, 1) ELSE token
              IN ParseLoop(toks, i + 1, add(group, FilterParse(raw), isExclude), currentMode)

\* the loop with a "-" anywhere in the token taken as the exclusion mark
ParseLoopAnyDash(toks, i, group, currentMode) ==
    IF i >= Len(toks)
    THEN <<[group EXCEPT !.mode = currentMode], Len(toks)>>
    ELSE LET token == toks[i + 1] IN
         IF token = <<"~">>
         THEN ParseLoop(toks, i + 1, group, "OR")
         ELSE IF token = <<"(">>
         THEN LET sub == parseTokens(toks, i + 1)
              IN ParseLoop(toks, sub[2] + 1, add(group, sub[1], FALSE), currentMode)
         ELSE IF token = <<")">>
         THEN <<[group EXCEPT !.mode = currentMode], i>>
         ELSE LET isExclude == Includes(token, <<"-">>)
                  raw == IF StartsWith(token, "-") THEN SliceFrom(token, 1) ELSE token
              IN ParseLoop(toks, i + 1, add(group, FilterParse(raw), isExclude), currentMode)

\* the loop with a return at the end of the tokens that leaves the mode of
\* the group as it is
ParseLoopEndKeepsMode(toks, i, group, currentMode) ==
    IF i >= Len(toks)
    THEN <<group, Len(toks)>>
    ELSE LET token == toks[i + 1] IN
         IF token = <<"~">>
         THEN ParseLoop(toks, i + 1, group, "OR")
         ELSE IF token = <<"(">>
         THEN LET sub == parseTokens(toks, i + 1)
              IN ParseLoop(toks, sub[2] + 1, add(group, sub[1], FALSE), currentMode)
         ELSE IF token = <<")">>
         THEN <<[group EXCEPT !.mode = currentMode], i>>
         ELSE LET isExclude == StartsWith(token, "-")
                  raw == IF isExclude THEN SliceFrom(token, 1) ELSE token
              IN ParseLoop(toks, i + 1, add(group, FilterParse(raw), isExclude), currentMode)

\* the loop with a return at a closing bracket that gives the index after
\* the bracket
ParseLoopEndsAfterBracket(toks, i, group, currentMode) ==
    IF i >= Len(toks)
    THEN <<[group EXCEPT !.mode = currentMode], Len(toks)>>
    ELSE LET token == toks[i + 1] IN
         IF token = <<"~">>
         THEN ParseLoop(toks, i + 1, group, "OR")
         ELSE IF token = <<"(">>
         THEN LET sub == parseTokens(toks, i + 1)
              IN ParseLoop(toks, sub[2] + 1, add(group, sub[1], FALSE), currentMode)
         ELSE IF token = <<")">>
         THEN <<[group EXCEPT !.mode = currentMode], i + 1>>
         ELSE LET isExclude == StartsWith(token, "-")
                  raw == IF isExclude THEN SliceFrom(token, 1) ELSE token
              IN ParseLoop(toks, i + 1, add(group, FilterParse(raw), isExclude), currentMode)

\* the loop with a "-" that reaches over a bracket: the subgroup of a "("
\* that follows the token "-" goes to the exclude list
ParseLoopDashExcludesGroup(toks, i, group, currentMode) ==
    IF i >= Len(toks)
    THEN <<[group EXCEPT !.mode = currentMode], Len(toks)>>
    ELSE LET token == toks[i + 1] IN
         IF token = <<"~">>
         THEN ParseLoop(toks, i + 1, group, "OR")
         ELSE IF token = <<"(">>
         THEN LET sub == parseTokens(toks, i + 1)
                  afterDash == i > 0 /\ toks[i] = <<"-">>
              IN ParseLoop(toks, sub[2] + 1, add(group, sub[1], afterDash), currentMode)
         ELSE IF token = <<")">>
         THEN <<[group EXCEPT !.mode = currentMode], i>>
         ELSE LET isExclude == StartsWith(token, "-")
                  raw == IF isExclude THEN SliceFrom(token, 1) ELSE token
              IN ParseLoop(toks, i + 1, add(group, FilterParse(raw), isExclude), currentMode)

ParseLoop(toks, i, group, currentMode) ==
    IF i >= Len(toks)
    THEN <<[group EXCEPT !.mode = currentMode], Len(toks)>>
    ELSE LET token == toks[i + 1] IN
         IF token = <<"~">>
         THEN ParseLoop(toks, i + 1, group, "OR")
         ELSE IF token = <<"(">>
         THEN LET sub == parseTokens(toks, i + 1)
              IN ParseLoop(toks, sub[2] + 1, add(group, sub[1], FALSE), currentMode)
         ELSE IF token = <<")">>
         THEN <<[group EXCEPT !.mode = currentMode], i>>
         ELSE LET isExclude == StartsWith(token, "-")
                  raw == IF isExclude THEN SliceFrom(token, 1) ELSE token
              IN ParseLoop(toks, i + 1, add(group, FilterParse(raw), isExclude), currentMode)

\* the value of a call that raised an error
Thrown == [kind |-> "error"]

\* parseTokens that raises an error when the call for the whole token list
\* ends at a closing bracket
parseTokensStrict(toks, start) ==
    LET parsed == ParseLoop(toks, start, FilterGroup("AND"), "AND")
    IN IF start = 0 /\ parsed[2] < Len(toks) THEN <<Thrown, parsed[2]>> ELSE parsed

parseTokens(toks, start) == ParseLoop(toks, start, FilterGroup("AND"), "AND")

\* SearchQueryParser.parseQuery
parseQuery(q) == parseTokens(tokenize(q), 0)[1]

\* the value of a JavaScript expression that is a boolean or a number
BoolVal(b) == [type |-> "boolean", value |-> b]
NumVal(n) == [type |-> "number", value |-> n]

\* hasQuery that looks at the include list alone
hasQueryIncludeOnly(group) == BoolVal(Len(group.include) > 0)

\* SearchQueryParser.hasQuery of the TypeScript source: a boolean
hasQuery(group) == BoolVal(Len(group.include) > 0 \/ Len(group.exclude) > 0)

\* SearchQueryParser.hasQuery of the JavaScript source: a || b of the two
\* lengths, a number
hasQueryJs(group) ==
    NumVal(IF Len(group.include) # 0 THEN Len(group.include) ELSE Len(group.exclude))

(***************************************************************************)
(* Inputs of the model.                                                    *)
(***************************************************************************)
\* all strings over the characters C of length at most n
RECURSIVE StringsUpTo(_, _)
StringsUpTo(C, n) ==
    IF n = 0 THEN {<<>>}
    ELSE LET shorter == StringsUpTo(C, n - 1)
         IN shorter \cup {Append(s, c) : s \in {t \in shorter : Len(t) = n - 1}, c \in C}

\* the characters of query strings
QueryChars == {"a", "b", " ", "~", "(", ")", "-", Quote}

Queries == StringsUpTo(QueryChars, MaxQueryLen)

\* the characters of the tokens given to Filter.parse
RawChars == {"a", ":", "=", Quote, "-"}

RawStrings == StringsUpTo(RawChars, MaxRawLen)

\* tokens as tokenize emits them
TokenPool == {<<"~">>, <<"(">>, <<")">>, <<"a">>, <<"-">>, <<"-", "b">>, <<"a", "-", "b">>}

TokenSeqs == StringsUpTo(TokenPool, MaxTokens)

\* arguments of new Filter(...)
FieldPool == {Null, <<>>, <<"a">>, <<"A">>}
TermPool == {<<>>, <<"a">>, <<"A">>, <<"a", "b">>, <<"b">>}
OperatorPool == {":", "="}

\* records given to Filter.matchEntry
ValuePool ==
    {StrVal(<<>>), StrVal(<<"a">>), StrVal(<<"A", "b">>), StrVal(<<"b">>),
     ArrVal(<<>>), ArrVal(<<OtherVal, StrVal(<<"a">>)>>), ArrVal(<<StrVal(<<>>)>>),
     ArrVal(<<ArrVal(<<StrVal(<<"a">>)>>)>>), OtherVal}

KeyPool == {<<"a">>, <<"A">>}

LeafEntries == UNION {[keys -> ValuePool] : keys \in SUBSET KeyPool}

\* items given to FilterGroup.add
ItemPool ==
    {Filter(Null, <<"a">>, ":"), Filter(Null, <<" ", "b">>, ":"),
     Filter(<<"t">>, <<"a", " ", "b">>, "="),
     FilterGroup("AND"), FilterGroup("OR")}

\* the modes of a group
Modes == {"AND", "OR"}

\* filters given to FilterGroup.remove and FilterGroup.hasFilter: the leaves
\* of ItemPool, and two that differ from one of them in the operator or in
\* the field alone
FilterArgs ==
    {item \in ItemPool : IsFilter(item)}
    \cup {Filter(Null, <<"a">>, "="), Filter(<<"t">>, <<"a">>, ":")}

\* records given to FilterGroup.matchesEntry
Entries ==
    {<<>>,
     [k \in {<<"t">>} |-> StrVal(<<"a">>)],
     [k \in {<<"t">>} |-> StrVal(<<"b">>)],
     [k \in {<<"t">>} |-> StrVal(<<"A", " ", "B">>)],
     [k \in {<<"t">>} |-> StrVal(<<"a", "~", "b">>)],
     [k \in {<<"t">>} |-> ArrVal(<<StrVal(<<"b">>), OtherVal>>)],
     [k \in {<<"t">>} |-> OtherVal]}

(***************************************************************************)
(* The tree as an object graph: a path names a group below the root.       *)
(***************************************************************************)
RECURSIVE Size(_)
Size(item) ==
    IF IsFilter(item) THEN 1
    ELSE LET SumOf(list) == LET RECURSIVE Sum(_)
                                Sum(i) == IF i > Len(list) THEN 0 ELSE Size(list[i]) + Sum(i + 1)
                            IN Sum(1)
         IN 1 + SumOf(item.include) + SumOf(item.exclude)

\* the paths to the groups of a tree; a step is <<isExclude, index>>
RECURSIVE GroupPaths(_)
GroupPaths(group) ==
    {<<>>}
    \cup UNION {{<<<<FALSE, i>>>> \o p : p \in GroupPaths(group.include[i])} :
                  i \in {j \in 1..Len(group.include) : IsFilterGroup(group.include[j])}}
    \cup UNION {{<<<<TRUE, i>>>> \o p : p \in GroupPaths(group.exclude[i])} :
                  i \in {j \in 1..Len(group.exclude) : IsFilterGroup(group.exclude[j])}}

\* group.add(...) called on the group at path
RECURSIVE AddAt(_, _, _, _)
AddAt(group, path, filterOrGroup, isExclude) ==
    IF path = <<>> THEN add(group, filterOrGroup, isExclude)
    ELSE IF path[1][1]
    THEN [group EXCEPT !.exclude[path[1][2]] = AddAt(@, Tail(path), filterOrGroup, isExclude)]
    ELSE [group EXCEPT !.include[path[1][2]] = AddAt(@, Tail(path), filterOrGroup, isExclude)]

(***************************************************************************)
(* State machine.                                                          *)
(***************************************************************************)
Init ==
    /\ pc = "init"
    /\ query = None
    /\ input = None
    /\ tokens = None
    /\ rootGroup = None
    /\ endIndex = None
    /\ leaf = None
    /\ entry = None
    /\ result = None
    /\ string = None
    /\ reparsed = None
    /\ call = None

\* new SearchQueryParser(): the empty root group
ConstructEmpty ==
    /\ pc = "init"
    /\ pc' = "constructed"
    /\ query' = Null
    /\ rootGroup' = FilterGroup("AND")
    /\ UNCHANGED <<input, tokens, endIndex, leaf, entry, result, string, reparsed, call>>

\* new SearchQueryParser(q)
Construct ==
    /\ pc = "init"
    /\ \E q \in Queries :
        LET parsed == parseTokens(tokenize(q), 0)
        IN /\ query' = q
           /\ tokens' = tokenize(q)
           /\ rootGroup' = parsed[1]
           /\ endIndex' = parsed[2]
    /\ pc' = "constructed"
    /\ UNCHANGED <<input, leaf, entry, result, string, reparsed, call>>

\* SearchQueryParser.parseTokens(toks)
ParseTokens ==
    /\ pc = "init"
    /\ \E toks \in TokenSeqs :
        LET parsed == parseTokens(toks, 0)
        IN /\ tokens' = toks
           /\ rootGroup' = parsed[1]
           /\ endIndex' = parsed[2]
    /\ pc' = "parsed"
    /\ UNCHANGED <<query, input, leaf, entry, result, string, reparsed, call>>

\* group.add(item, isExclude) on the root group or on a group below it; the
\* argument of the constructor and the locals of parseQuery are gone by then
Add ==
    /\ pc \notin {"init"}
    /\ Size(rootGroup) <= MaxAdds
    /\ \E path \in GroupPaths(rootGroup), item \in ItemPool, isExclude \in BOOLEAN :
        rootGroup' = AddAt(rootGroup, path, item, isExclude)
    /\ pc' = "add"
    /\ entry' = None /\ result' = None /\ string' = None /\ reparsed' = None
    /\ call' = None
    /\ query' = None /\ tokens' = None /\ endIndex' = None
    /\ UNCHANGED <<input, leaf>>

\* SearchQueryParser.matchesEntry(e)
MatchesEntry ==
    /\ pc \notin {"init"}
    /\ \E e \in Entries :
        /\ entry' = e
        /\ result' = matchesEntry(rootGroup, e)
    /\ pc' = "matchesEntry"
    /\ string' = None /\ reparsed' = None
    /\ UNCHANGED <<query, input, tokens, rootGroup, endIndex, leaf, call>>

\* SearchQueryParser.toString()
QueryToString ==
    /\ pc \notin {"init"}
    /\ string' = GroupToString(rootGroup)
    /\ pc' = "toString"
    /\ entry' = None /\ result' = None /\ reparsed' = None
    /\ UNCHANGED <<query, input, tokens, rootGroup, endIndex, leaf, call>>

\* new SearchQueryParser(string) on the text toString returned
Reparse ==
    /\ pc = "toString"
    /\ reparsed' = parseQuery(string)
    /\ pc' = "reparse"
    /\ UNCHANGED <<query, input, tokens, rootGroup, endIndex, leaf, entry, result, string, call>>

\* new Filter(field, term, operator)
NewFilter ==
    /\ pc = "init"
    /\ \E field \in FieldPool, term \in TermPool, operator \in OperatorPool :
        leaf' = Filter(field, term, operator)
    /\ pc' = "filter"
    /\ UNCHANGED <<query, input, tokens, rootGroup, endIndex, entry, result, string, reparsed, call>>

\* Filter.parse(r)
ParseFilter ==
    /\ pc = "init"
    /\ \E r \in RawStrings :
        /\ input' = r
        /\ leaf' = FilterParse(r)
    /\ pc' = "filterParse"
    /\ UNCHANGED <<query, tokens, rootGroup, endIndex, entry, result, string, reparsed, call>>

\* Filter.matchEntry(e)
MatchEntry ==
    /\ pc = "filter"
    /\ \E e \in LeafEntries :
        /\ entry' = e
        /\ result' = matchEntry(leaf, e)
    /\ pc' = "matchEntry"
    /\ UNCHANGED <<query, input, tokens, rootGroup, endIndex, leaf, string, reparsed, call>>

\* rootGroup.addWithMode(item, mode, isExclude)
AddWithMode ==
    /\ pc \notin {"init"}
    /\ Size(rootGroup) <= MaxAdds
    /\ \E item \in ItemPool, mode \in Modes, isExclude \in BOOLEAN :
        /\ call' = [filterOrGroup |-> item, mode |-> mode, isExclude |-> isExclude]
        /\ rootGroup' = addWithMode(rootGroup, item, mode, isExclude)
    /\ pc' = "addWithMode"
    /\ entry' = None /\ result' = None /\ string' = None /\ reparsed' = None
    /\ query' = None /\ tokens' = None /\ endIndex' = None
    /\ UNCHANGED <<input, leaf>>

\* rootGroup.remove(filter, isExclude)
Remove ==
    /\ pc \notin {"init"}
    /\ \E filter \in FilterArgs, isExclude \in BOOLEAN :
        /\ call' = [filter |-> filter, isExclude |-> isExclude]
        /\ rootGroup' = remove(rootGroup, filter, isExclude)
    /\ pc' = "remove"
    /\ entry' = None /\ result' = None /\ string' = None /\ reparsed' = None
    /\ query' = None /\ tokens' = None /\ endIndex' = None
    /\ UNCHANGED <<input, leaf>>

\* rootGroup.hasFilter(filter, isExclude, nestedEntries)
HasFilter ==
    /\ pc \notin {"init"}
    /\ \E filter \in FilterArgs, isExclude \in BOOLEAN, nestedEntries \in BOOLEAN :
        /\ call' = [filter |-> filter, isExclude |-> isExclude, nestedEntries |-> nestedEntries]
        /\ result' = hasFilter(rootGroup, filter, isExclude, nestedEntries)
    /\ pc' = "hasFilter"
    /\ entry' = None /\ string' = None /\ reparsed' = None
    /\ UNCHANGED <<query, input, tokens, rootGroup, endIndex, leaf>>

\* SearchQueryParser.hasQuery(), in the TypeScript or the JavaScript source
HasQuery ==
    /\ pc \notin {"init"}
    /\ \E source \in {"ts", "js"} :
        result' = IF source = "ts" THEN hasQuery(rootGroup) ELSE hasQueryJs(rootGroup)
    /\ pc' = "hasQuery"
    /\ entry' = None /\ string' = None /\ reparsed' = None /\ call' = None
    /\ UNCHANGED <<query, input, tokens, rootGroup, endIndex, leaf>>

\* a program that builds its query with add
NextBuild == ConstructEmpty \/ Add \/ MatchesEntry \/ QueryToString \/ Reparse
SpecBuild == Init /\ [][NextBuild]_vars

\* a program that parses a query string
NextQuery == Construct \/ MatchesEntry \/ QueryToString \/ Reparse
SpecQuery == Init /\ [][NextQuery]_vars

\* the parser on token sequences
NextTokens == ParseTokens
SpecTokens == Init /\ [][NextTokens]_vars

\* the leaf parser
NextParseFilter == ParseFilter
SpecParseFilter == Init /\ [][NextParseFilter]_vars

\* leaf filters against records
NextFilter == NewFilter \/ MatchEntry
SpecFilter == Init /\ [][NextFilter]_vars

\* a program that edits its query: add, addWithMode and remove
NextEdit == ConstructEmpty \/ Add \/ AddWithMode \/ Remove
SpecEdit == Init /\ [][NextEdit]_vars

\* a program that asks hasFilter of the query it built
NextHasFilter == ConstructEmpty \/ Add \/ HasFilter
SpecHasFilter == Init /\ [][NextHasFilter]_vars

\* a program that asks hasQuery of a new, a parsed or an edited query
NextHasQuery == ConstructEmpty \/ Construct \/ Add \/ AddWithMode \/ Remove \/ HasQuery
SpecHasQuery == Init /\ [][NextHasQuery]_vars

Next == NextBuild \/ NextQuery \/ NextTokens \/ NextParseFilter \/ NextFilter \/ NextEdit \/ NextHasFilter \/ NextHasQuery
Spec == Init /\ [][Next]_vars

(***************************************************************************)
(* Properties.                                                             *)
(***************************************************************************)
Range(list) == {list[i] : i \in 1..Len(list)}

\* the groups of a tree, the root included
RECURSIVE Groups(_)
Groups(group) ==
    {group} \cup UNION {Groups(g) : g \in {x \in Range(group.include) \cup Range(group.exclude) : IsFilterGroup(x)}}

\* the matching rule of the evaluator, stated over the sets of items
RECURSIVE ItemMatches(_, _)
ItemMatches(item, e) ==
    IF IsFilter(item) THEN matchEntry(item, e)
    ELSE /\ \/ item.include = <<>>
            \/ item.mode = "AND" /\ \A x \in Range(item.include) : ItemMatches(x, e)
            \/ item.mode = "OR" /\ \E x \in Range(item.include) : ItemMatches(x, e)
         /\ ~ \E x \in Range(item.exclude) : ItemMatches(x, e)

\* C1: matchesEntry returns true iff the include side holds (empty include
\* list, or AND and every include item matches, or OR and some include item
\* matches) and no exclude item matches; the exclude side does not depend on
\* the mode, so a group holding only excluded terms matches iff none of them
\* matches, also when its mode is OR.
C1_MatchesEntryRule ==
    pc = "matchesEntry" =>
        /\ result = ItemMatches(rootGroup, entry)
        /\ \A g \in Groups(rootGroup) :
              g.include = <<>> =>
                  (matchesEntry(g, entry) <=> \A x \in Range(g.exclude) : ~ItemMatches(x, entry))

\* an OR group that holds only two excluded terms, one of which matches the
\* record, has been evaluated and made the query fail
C1_Witness ==
    /\ pc = "matchesEntry"
    /\ result = FALSE
    /\ \E g \in Range(rootGroup.include) :
          /\ IsFilterGroup(g) /\ g.mode = "OR" /\ g.include = <<>> /\ Len(g.exclude) = 2
          /\ IsFilter(g.exclude[1]) /\ IsFilter(g.exclude[2])
          /\ matchEntry(g.exclude[1], entry) /\ ~matchEntry(g.exclude[2], entry)

(***************************************************************************)
(* Brackets of a token sequence, by counting depth (positions from 1).     *)
(***************************************************************************)
\* the number of "(" minus the number of ")" before position p
DepthAt(toks, p) ==
    Cardinality({q \in 1..(p - 1) : toks[q] = <<"(">>})
    - Cardinality({q \in 1..(p - 1) : toks[q] = <<")">>})

Min(S) == CHOOSE x \in S : \A y \in S : x <= y

\* the position of the first ")" without a "(", or Len + 1: the root group
\* is made of the tokens before it
RootEnd(toks) ==
    Min({p \in 1..Len(toks) : toks[p] = <<")">> /\ DepthAt(toks, p) = 0} \cup {Len(toks) + 1})

\* the position of the ")" that closes the "(" at position p, or Len + 1
CloseOf(toks, p) ==
    Min({q \in (p + 1)..Len(toks) : toks[q] = <<")">> /\ DepthAt(toks, q) = DepthAt(toks, p) + 1}
        \cup {Len(toks) + 1})

\* the positions directly at the bracket level of the group opened at
\* position p (p = 0 for the root group)
OwnLevel(toks, p) ==
    IF p = 0
    THEN {q \in 1..(RootEnd(toks) - 1) : DepthAt(toks, q) = 0}
    ELSE {q \in (p + 1)..(CloseOf(toks, p) - 1) : DepthAt(toks, q) = DepthAt(toks, p) + 1}

\* the "(" tokens of the root group and of the groups below it, in order
Opens(toks) ==
    LET P == {p \in 1..(RootEnd(toks) - 1) : toks[p] = <<"(">>}
        RECURSIVE Ordered(_)
        Ordered(S) == IF S = {} THEN <<>> ELSE <<Min(S)>> \o Ordered(S \ {Min(S)})
    IN Ordered(P)

ExpectedMode(toks, p) ==
    IF \E q \in OwnLevel(toks, p) : toks[q] = <<"~">> THEN "OR" ELSE "AND"

\* the groups of a parsed tree in the order their brackets open
RECURSIVE Preorder(_)
Preorder(group) ==
    LET RECURSIVE Below(_)
        Below(i) ==
            IF i > Len(group.include) THEN <<>>
            ELSE (IF IsFilterGroup(group.include[i]) THEN Preorder(group.include[i]) ELSE <<>>)
                 \o Below(i + 1)
    IN <<group>> \o Below(1)

\* C2: each group produced by parseTokens has mode OR iff a "~" occurs
\* directly at its own bracket level, AND otherwise; a "~" in a nested
\* bracket leaves the enclosing group's mode alone; the one mode applies to
\* all include items of the group, also to those separated only by spaces.
C2_ModePerGroup ==
    pc = "parsed" =>
        LET groups == Preorder(rootGroup)
            opens == Opens(tokens)
        IN /\ Len(groups) = 1 + Len(opens)
           /\ groups[1].mode = ExpectedMode(tokens, 0)
           /\ \A k \in 1..Len(opens) : groups[k + 1].mode = ExpectedMode(tokens, opens[k])
           /\ \A k \in 1..Len(groups), e \in Entries :
                 (groups[k].include # <<>> /\ groups[k].exclude = <<>>) =>
                    (matchesEntry(groups[k], e) <=>
                        IF \E q \in OwnLevel(tokens, IF k = 1 THEN 0 ELSE opens[k - 1]) : tokens[q] = <<"~">>
                        THEN \E x \in Range(groups[k].include) : ItemMatches(x, e)
                        ELSE \A x \in Range(groups[k].include) : ItemMatches(x, e))

\* "a a-b ~ a" was parsed: one "~" after two terms separated by a space makes
\* the whole root group OR
C2_Witness ==
    /\ pc = "parsed"
    /\ Len(tokens) = 4 /\ tokens[1] # <<"~">> /\ tokens[2] # <<"~">> /\ tokens[3] = <<"~">>
    /\ rootGroup.mode = "OR" /\ Len(rootGroup.include) = 3
    /\ \A x \in Range(rootGroup.include) : IsFilter(x)

Balanced(toks) ==
    /\ \A p \in 1..(Len(toks) + 1) : DepthAt(toks, p) >= 0
    /\ DepthAt(toks, Len(toks) + 1) = 0

IsStructural(token) == token \in {<<"~">>, <<"(">>, <<")">>}

\* the tree written by the balanced tokens at positions lo..hi, read off the
\* brackets: the items in token order, a bracket pair as one group
RECURSIVE WrittenItems(_, _, _, _), WrittenGroup(_, _, _, _)
WrittenItems(toks, lo, hi, excluded) ==
    IF lo > hi THEN <<>>
    ELSE IF toks[lo] = <<"(">>
    THEN (IF excluded THEN <<>>
          ELSE <<WrittenGroup(toks, lo + 1, CloseOf(toks, lo) - 1, lo)>>)
         \o WrittenItems(toks, CloseOf(toks, lo) + 1, hi, excluded)
    ELSE IF IsStructural(toks[lo])
    THEN WrittenItems(toks, lo + 1, hi, excluded)
    ELSE (IF excluded = (toks[lo][1] = "-")
          THEN <<FilterParse(IF excluded THEN Tail(toks[lo]) ELSE toks[lo])>>
          ELSE <<>>)
         \o WrittenItems(toks, lo + 1, hi, excluded)

WrittenGroup(toks, lo, hi, open) ==
    [kind |-> "group",
     include |-> WrittenItems(toks, lo, hi, FALSE),
     exclude |-> WrittenItems(toks, lo, hi, TRUE),
     mode |-> ExpectedMode(toks, open)]

\* C5: for balanced tokens, each bracket pair gives exactly one subgroup in
\* the include list of the enclosing group, at the pair's position in token
\* order and holding exactly the items written between the pair; each
\* recursive call returns the index of the ")" matching its "(", and the
\* top-level call returns the number of tokens.
C5_BalancedBrackets ==
    (pc = "parsed" /\ Balanced(tokens)) =>
        /\ rootGroup = WrittenGroup(tokens, 1, Len(tokens), 0)
        /\ endIndex = Len(tokens)
        /\ \A p \in 1..Len(tokens) :
              tokens[p] = <<"(">> => parseTokens(tokens, p)[2] = CloseOf(tokens, p) - 1

\* balanced tokens with a bracket pair inside a bracket pair and a term
\* after the inner pair were parsed
C5_Witness ==
    /\ pc = "parsed" /\ Balanced(tokens)
    /\ \E g \in Range(rootGroup.include) :
          /\ IsFilterGroup(g) /\ Len(g.include) = 2
          /\ IsFilterGroup(g.include[1]) /\ IsFilter(g.include[2])

\* the elements of a set of positions in increasing order
RECURSIVE Ascending(_)
Ascending(S) == IF S = {} THEN <<>> ELSE <<Min(S)>> \o Ascending(S \ {Min(S)})

\* the tokens other than "~", "(" and ")" directly at the level of the group
\* opened at position p, in token order; excluded selects those with a
\* leading "-"
TermsAt(toks, p, excluded) ==
    LET own == Ascending({q \in OwnLevel(toks, p) :
                            ~IsStructural(toks[q]) /\ (toks[q][1] = "-") = excluded})
    IN [i \in 1..Len(own) |-> toks[own[i]]]

\* C6: every token other than "~", "(" and ")" adds exactly one leaf to the
\* group being parsed at that point: to the exclude list, parsed from the
\* token without its leading "-", iff the token starts with "-", else to the
\* include list; leaves keep token order; a "-" elsewhere in the token does
\* not exclude.
C6_OneLeafPerTerm ==
    pc = "parsed" =>
        LET groups == Preorder(rootGroup)
            opens == Opens(tokens)
        IN /\ Len(groups) = 1 + Len(opens)
           /\ \A k \in 1..Len(groups) :
                 LET p == IF k = 1 THEN 0 ELSE opens[k - 1]
                     inc == TermsAt(tokens, p, FALSE)
                     exc == TermsAt(tokens, p, TRUE)
                 IN /\ SelectSeq(groups[k].include, IsFilter) = [i \in 1..Len(inc) |-> FilterParse(inc[i])]
                    /\ groups[k].exclude = [i \in 1..Len(exc) |-> FilterParse(Tail(exc[i]))]

\* "-b a-b -" was parsed: two excluded leaves in token order and one
\* included leaf whose term keeps its inner "-"
C6_Witness ==
    /\ pc = "parsed"
    /\ tokens = <<<<"-", "b">>, <<"a", "-", "b">>, <<"-">>>>
    /\ rootGroup.exclude = <<Filter(Null, <<"b">>, ":"), Filter(Null, <<>>, ":")>>
    /\ rootGroup.include = <<Filter(Null, <<"a", "-", "b">>, ":")>>

\* the length of the longest prefix of word characters
RECURSIVE WordPrefix(_)
WordPrefix(s) == IF Len(s) >= 1 /\ s[1] \in WordChars THEN 1 + WordPrefix(Tail(s)) ELSE 0

\* s without one pair of surrounding double quotes, if it is wrapped in one
StripPair(s) ==
    IF Len(s) >= 2 /\ s[1] = Quote /\ s[Len(s)] = Quote THEN SubSeq(s, 2, Len(s) - 1) ELSE s

\* C7: Filter.parse(token) returns, for a token of the form
\* <word characters><":" or "="><rest>, the leaf with that field, that
\* operator and the rest with at most one pair of surrounding double quotes
\* stripped (an unpaired quote is not stripped); else, for a token wrapped
\* in a pair of double quotes, the fieldless ":" leaf of the token without
\* the pair; else the fieldless ":" leaf of the token unchanged.
C7_ParseRule ==
    pc = "filterParse" =>
        LET n == WordPrefix(input)
            fielded == n >= 1 /\ Len(input) >= n + 2 /\ input[n + 1] \in {":", "="}
        IN leaf = IF fielded
                  THEN Filter(SubSeq(input, 1, n), StripPair(SubSeq(input, n + 2, Len(input))), input[n + 1])
                  ELSE Filter(Null, StripPair(input), ":")

\* the operator test: "=" is equality and ":" is containment, both after
\* lower-casing
OperatorTest(f, s) ==
    IF f.operator = "=" THEN ToLowerCase(s) = ToLowerCase(f.term)
    ELSE \E i \in 0..Len(s), j \in 0..Len(s) :
            i <= j /\ ToLowerCase(SubSeq(s, i + 1, j)) = ToLowerCase(f.term)

\* the strings a property value offers: itself, or its string elements
StringsOf(v) ==
    IF v.type = "string" THEN {v.str}
    ELSE IF v.type = "array" THEN {x.str : x \in {y \in Range(v.items) : y.type = "string"}}
    ELSE {}

\* C3: a leaf with a field matches iff the record has a property whose name
\* equals the field ignoring case, in both directions, and whose value is a
\* string, or an array containing a string, that passes the operator test.
C3_FieldLookupIgnoresCase ==
    (pc = "matchEntry" /\ leaf.field # Null /\ leaf.field # <<>>) =>
        (result <=> \E key \in DOMAIN entry :
                        /\ ToLowerCase(key) = ToLowerCase(leaf.field)
                        /\ \E s \in StringsOf(entry[key]) : OperatorTest(leaf, s))

\* C4 as claimed: a leaf without a field matches iff some string value, or
\* string element of an array value, passes the operator test; this holds
\* for every string value, the empty string included.
C4_AnyStringValue ==
    (pc = "matchEntry" /\ leaf.field = Null) =>
        (result <=> \E key \in DOMAIN entry : \E s \in StringsOf(entry[key]) : OperatorTest(leaf, s))

\* C4 as amended: a leaf without a field matches iff some non-empty string
\* value, or non-empty string element of an array value, passes the operator
\* test; empty strings and non-string values contribute nothing.
C4_AnyNonEmptyStringValue ==
    (pc = "matchEntry" /\ leaf.field = Null) =>
        (result <=> \E key \in DOMAIN entry :
                        \E s \in StringsOf(entry[key]) : s # <<>> /\ OperatorTest(leaf, s))

\* a fieldless leaf with the EXACT operator matched a record through a
\* string element of an array, next to a property holding an empty string
C4_Witness ==
    /\ pc = "matchEntry" /\ leaf.field = Null /\ leaf.operator = "=" /\ leaf.term = <<"A">>
    /\ result = TRUE
    /\ \E k1, k2 \in DOMAIN entry :
          /\ entry[k1].type = "array" /\ StrVal(<<"a">>) \in Range(entry[k1].items)
          /\ entry[k2] = StrVal(<<>>)

\* C8: for a tree built from an empty query by add calls alone, parsing the
\* text toString returns gives a tree with the same matchesEntry result as
\* the original tree on every record.
C8_BuiltRoundTrip ==
    pc = "reparse" =>
        \A e \in Entries : matchesEntry(reparsed, e) = matchesEntry(rootGroup, e)

\* C9: for every query string q, the text toString returns for the query
\* parsed from q parses again to a tree with the same matchesEntry result as
\* the tree parsed from q on every record.
C9_ParsedRoundTrip ==
    (pc = "reparse" /\ query # Null) =>
        \A e \in Entries : matchesEntry(reparsed, e) = matchesEntry(rootGroup, e)

\* the text of a tree as the format describes it
RenderedLeaf(f) ==
    LET trimmed == Trim(f.term)
        quoted == \E i \in 1..Len(trimmed) : trimmed[i] = " "
    IN (IF f.field # Null THEN f.field \o <<f.operator>> ELSE <<>>)
       \o (IF quoted THEN <<Quote>> \o f.term \o <<Quote>> ELSE f.term)

RECURSIVE Rendered(_)
Rendered(group) ==
    LET Item(list, i) ==
            IF IsFilter(list[i]) THEN RenderedLeaf(list[i])
            ELSE IF Len(list) > 1 THEN <<"(">> \o Rendered(list[i]) \o <<")">>
            ELSE Rendered(list[i])
        separator == IF group.mode = "AND" THEN " " ELSE "~"
        RECURSIVE Inc(_)
        Inc(i) == IF i > Len(group.include) THEN <<>>
                  ELSE (IF i > 1 THEN <<separator>> ELSE <<>>) \o Item(group.include, i) \o Inc(i + 1)
        RECURSIVE Exc(_)
        Exc(i) == IF i > Len(group.exclude) THEN <<>>
                  ELSE (IF i > 1 THEN <<" ">> ELSE <<>>) \o <<"-">> \o Item(group.exclude, i) \o Exc(i + 1)
    IN IF Inc(1) # <<>> /\ Exc(1) # <<>> THEN Inc(1) \o <<" ">> \o Exc(1) ELSE Inc(1) \o Exc(1)

\* C10: toString returns the include items joined by a space (AND) or by "~"
\* (OR), then, after one space when both parts are non-empty, the exclude
\* items each prefixed with "-" and joined by spaces; a nested group is in
\* parentheses iff its list has more than one item; a leaf is field and
\* operator (when it has a field) followed by the term, the term in double
\* quotes iff it contains a space after trimming.
C10_ToStringFormat ==
    pc = "toString" => string = Rendered(rootGroup)

\* the text of a group next to a leaf with a field and a term holding a
\* space was produced: the group is in parentheses, the term in quotes
C10_Witness ==
    /\ pc = "toString"
    /\ Len(rootGroup.include) = 2 /\ rootGroup.exclude = <<>>
    /\ IsFilterGroup(rootGroup.include[1]) /\ rootGroup.include[1].include = <<Filter(Null, <<"a">>, ":")>>
    /\ rootGroup.include[2] = Filter(<<"t">>, <<"a", " ", "b">>, "=")
    /\ string = <<"(", "a", ")", " ", "t", "=", Quote, "a", " ", "b", Quote>>

\* a leaf filter, and a tree of filter groups and leaf filters
IsLeaf(item) ==
    /\ item.kind = "filter"
    /\ item.operator \in OperatorPool
    /\ DOMAIN item = {"kind", "field", "term", "operator"}

RECURSIVE IsTree(_)
IsTree(item) ==
    /\ item.kind = "group"
    /\ item.mode \in Modes
    /\ \A child \in Range(item.include) \cup Range(item.exclude) :
        IF child.kind = "filter" THEN IsLeaf(child) ELSE IsTree(child)

\* C11: for every query string, parsing returns a filter group (no error is
\* raised), and evaluating that group against any record returns a boolean
\* (no error is raised); both calls terminate.
C11_ParseAndMatchTotal ==
    /\ (pc = "constructed" /\ query # Null) => IsTree(rootGroup)
    /\ (pc = "matchesEntry" /\ query # Null) => (IsTree(rootGroup) /\ result \in BOOLEAN)

\* a lone dash, a tilde, an unclosed bracket and an unclosed quote have been
\* parsed and the tree evaluated against a record whose value is no string
C11_Witness ==
    /\ pc = "matchesEntry"
    /\ query = <<"-", "~", "(", Quote>>
    /\ IsTree(rootGroup)
    /\ entry = [k \in {<<"t">>} |-> OtherVal]
    /\ result = FALSE

\* C12: remove(filter, isExclude) deletes from the selected list exactly the
\* leaf filters whose field, term and operator equal those of filter; every
\* other item of that list (leaf filters and nested groups, in their order),
\* the other list and the mode of the group stay as they were.
C12_RemoveFrame ==
    [][pc' = "remove" =>
        LET filter == call'.filter
            stays(item) == ~(IsFilter(item) /\ FilterEquals(item, filter))
        IN /\ rootGroup'.mode = rootGroup.mode
           /\ IF call'.isExclude
              THEN /\ rootGroup'.exclude = SelectSeq(rootGroup.exclude, stays)
                   /\ rootGroup'.include = rootGroup.include
              ELSE /\ rootGroup'.include = SelectSeq(rootGroup.include, stays)
                   /\ rootGroup'.exclude = rootGroup.exclude]_vars

\* C13: addWithMode(item, mode, false) on a group of another mode moves the
\* include list into one new child group that carries the old mode, makes
\* the include list [child, item], sets the mode to mode and leaves the
\* exclude list alone; with equal modes, or with an item for the exclude
\* list, the item is appended to the chosen list and the mode and the other
\* list stay as they were.
C13_AddWithModeFrame ==
    [][pc' = "addWithMode" =>
        LET item == call'.filterOrGroup
            mode == call'.mode
        IN IF ~call'.isExclude /\ rootGroup.mode # mode
           THEN /\ Len(rootGroup'.include) = 2
                /\ IsFilterGroup(rootGroup'.include[1])
                /\ rootGroup'.include[1].include = rootGroup.include
                /\ rootGroup'.include[1].mode = rootGroup.mode
                /\ rootGroup'.include[2] = item
                /\ rootGroup'.mode = mode
                /\ rootGroup'.exclude = rootGroup.exclude
           ELSE IF call'.isExclude
           THEN /\ rootGroup'.exclude = Append(rootGroup.exclude, item)
                /\ rootGroup'.include = rootGroup.include
                /\ rootGroup'.mode = rootGroup.mode
           ELSE /\ rootGroup'.include = Append(rootGroup.include, item)
                /\ rootGroup'.exclude = rootGroup.exclude
                /\ rootGroup'.mode = rootGroup.mode]_vars

\* addWithMode(item, "OR", false) has moved the include item of an AND group
\* with an exclude item into a child group
C13_Witness ==
    /\ pc = "addWithMode"
    /\ ~call.isExclude /\ call.mode = "OR"
    /\ rootGroup.mode = "OR"
    /\ Len(rootGroup.include) = 2
    /\ IsFilterGroup(rootGroup.include[1])
    /\ rootGroup.include[1].mode = "AND"
    /\ Len(rootGroup.include[1].include) = 1
    /\ rootGroup.include[2] = call.filterOrGroup
    /\ Len(rootGroup.exclude) = 1

\* the truth value JavaScript gives a boolean or a number
JsTruthy(v) == IF v.type = "boolean" THEN v.value ELSE v.value # 0

\* C14: hasQuery() is true iff the include list or the exclude list of the
\* root group is non-empty: after construction without a query, after
\* parsing a query string, and after any sequence of add, addWithMode and
\* remove calls.
C14_HasQueryIffNonEmpty ==
    pc = "hasQuery" =>
        (JsTruthy(result) <=> (Len(rootGroup.include) > 0 \/ Len(rootGroup.exclude) > 0))

\* hasQuery has been asked of an edited query whose include list is empty and
\* whose exclude list is not
C14_Witness ==
    /\ pc = "hasQuery"
    /\ query = None
    /\ Len(rootGroup.include) = 0
    /\ Len(rootGroup.exclude) = 1
    /\ JsTruthy(result)

\* the selected list of a group holds a leaf equal to filter
HasEqualLeaf(group, filter, isExclude) ==
    \E item \in Range(IF isExclude THEN group.exclude ELSE group.include) :
        IsFilter(item) /\ FilterEquals(item, filter)

\* C15: hasFilter(filter, isExclude, nestedEntries) is true, without
\* nestedEntries, iff a leaf with the field, term and operator of filter is
\* directly in the selected list of the group, and with nestedEntries iff
\* such a leaf is in the selected kind of list of the group or of any group
\* nested anywhere below it.
C15_HasFilterRule ==
    pc = "hasFilter" =>
        result = IF call.nestedEntries
                 THEN \E g \in Groups(rootGroup) : HasEqualLeaf(g, call.filter, call.isExclude)
                 ELSE HasEqualLeaf(rootGroup, call.filter, call.isExclude)

\* position i of q is inside quotes: an odd number of quotes precedes it
InsideQuotes(q, i) == Cardinality({j \in 1..(i - 1) : q[j] = Quote}) % 2 = 1

\* position i of q holds a bracket, a tilde or a space outside quotes
Separates(q, i) == q[i] \in {"(", ")", "~", " "} /\ ~InsideQuotes(q, i)

\* the end of the run of characters that starts at position a and holds no
\* separating position
RunEnd(q, a) == Min({i \in a..Len(q) : Separates(q, i)} \cup {Len(q) + 1}) - 1

\* the positions where a token starts: a bracket or tilde outside quotes, or
\* the first character of a run
TokenStarts(q) ==
    {i \in 1..Len(q) :
        \/ Separates(q, i) /\ q[i] # " "
        \/ ~Separates(q, i) /\ (i = 1 \/ Separates(q, i - 1))}

\* the tokens of q by position: the run is taken as it stands, or trimmed
ScanTokens(q, trimmed) ==
    LET starts == Ascending(TokenStarts(q))
        run(a) == SubSeq(q, a, RunEnd(q, a))
    IN [k \in 1..Len(starts) |->
            IF Separates(q, starts[k]) THEN <<q[starts[k]]>>
            ELSE IF trimmed THEN Trim(run(starts[k])) ELSE run(starts[k])]

\* C16 as stated: the tokens of a query are, in input order, each bracket
\* and tilde outside quotes as a token of its own and each run of characters
\* between separating positions as one token; a space outside quotes only
\* ends a token; a bracket, tilde or space inside quotes (closed or not) and
\* the quotes themselves are kept in the token; no token is empty.
C16_TokenizeKeepsRuns ==
    pc = "constructed" /\ query # Null =>
        /\ tokens = ScanTokens(query, FALSE)
        /\ \A k \in 1..Len(tokens) : tokens[k] # <<>>

\* C16, amended: as above, except that the spaces at the end of a run are
\* trimmed: after a quote that is not closed the spaces that end the input
\* are not part of the token.
C16_TokenizeTrimsRuns ==
    pc = "constructed" /\ query # Null =>
        /\ tokens = ScanTokens(query, TRUE)
        /\ \A k \in 1..Len(tokens) : tokens[k] # <<>>

\* a query with a tilde and a space after a quote that is not closed has
\* been tokenized: one token, with the tilde and without the space
C16_Witness ==
    /\ pc = "constructed"
    /\ query = <<"a", Quote, "~", " ">>
    /\ tokens = << <<"a", Quote, "~">> >>

\* C17: when a ")" without a "(" stands at the top level, the call for the
\* whole token list ends at the first such ")": it returns the group that
\* the tokens before it give (their leaves, subgroups and mode), and the
\* index of that ")"; no token after it adds a leaf or a subgroup.
C17_StrayBracketEndsParse ==
    (pc = "parsed" /\ RootEnd(tokens) <= Len(tokens)) =>
        /\ rootGroup = parseTokens(SubSeq(tokens, 1, RootEnd(tokens) - 1), 0)[1]
        /\ endIndex = RootEnd(tokens) - 1

\* a token list with a stray ")" after a closed subgroup and with an excluded
\* term after it has been parsed
C17_Witness ==
    /\ pc = "parsed"
    /\ tokens = << <<"(">>, <<"a">>, <<")">>, <<")">>, <<"-", "b">> >>
    /\ endIndex = 3
    /\ Len(rootGroup.include) = 1
    /\ rootGroup.exclude = <<>>

\* the invocations of parseTokens in the parse of toks, named by their start
\* index: 0 for the call on the whole list, p for the call made at the "("
\* at position p
Invocations(toks) == {0} \cup {p \in 1..(RootEnd(toks) - 1) : toks[p] = <<"(">>}

\* the invocation started at index p leaves its loop at the end of the
\* tokens: a return at a ")" gives the index of that token, less than Len
ReachesEnd(toks, p) == parseTokens(toks, p)[2] = Len(toks)

\* the bracket level of the invocation started at index p has its ")"
IsClosed(toks, p) ==
    IF p = 0 THEN RootEnd(toks) <= Len(toks) ELSE CloseOf(toks, p) <= Len(toks)

\* C18 as stated: only the invocation for the whole token list reaches the
\* end of the tokens without meeting a ")", never an invocation started by
\* a "("; when it does, the mode of its group is currentMode and the index
\* it returns is the number of tokens.
C18_EndOnlyAtTopLevel ==
    pc = "parsed" =>
        /\ \A p \in Invocations(tokens) \ {0} : ~ReachesEnd(tokens, p)
        /\ ~IsClosed(tokens, 0) =>
              (endIndex = Len(tokens) /\ rootGroup.mode = ExpectedMode(tokens, 0))

\* C18, amended: an invocation reaches the end of the tokens without meeting
\* a ")" iff its bracket level is never closed: the invocation for the whole
\* list when no ")" lacks its "(", and an invocation started by a "(" that
\* has no ")"; each one that does sets the mode of its group to
\* currentMode and returns the number of tokens.
C18_EndAtUnclosedLevel ==
    pc = "parsed" =>
        \A p \in Invocations(tokens) :
            LET returned == parseTokens(tokens, p)
            IN IF IsClosed(tokens, p)
               THEN returned[2] < Len(tokens)
               ELSE returned[2] = Len(tokens) /\ returned[1].mode = ExpectedMode(tokens, p)

\* "( a ~ a" has been parsed: the invocation started by the "(" reached the
\* end of the tokens in OR mode, and so did the outer one in AND mode
C18_Witness ==
    /\ pc = "parsed"
    /\ tokens = << <<"(">>, <<"a">>, <<"~">>, <<"a">> >>
    /\ ReachesEnd(tokens, 1)
    /\ endIndex = 4
    /\ rootGroup.mode = "AND"
    /\ rootGroup.include[1].mode = "OR"

\* the leaf filters of a tree, in both lists of every group
RECURSIVE Leaves(_)
Leaves(item) ==
    IF IsFilter(item) THEN {item}
    ELSE UNION {Leaves(x) : x \in Range(item.include) \cup Range(item.exclude)}

\* C19: for every query string, no leaf of the parsed tree stores a term
\* that begins or ends with a double quote: the quotes are stripped.
C19_TermsUnquoted ==
    (pc = "constructed" /\ query # Null) =>
        \A f \in Leaves(rootGroup) : ~StartsWith(f.term, Quote) /\ ~EndsWith(f.term, Quote)

\* an item of a list matches a record
Matches(item, e) == IF IsFilterGroup(item) THEN matchesEntry(item, e) ELSE matchEntry(item, e)

\* C20: after addWithMode(item, mode, false) the group matches a record iff
\* no exclude item matches it and the include side holds; the include side
\* is the include side before the call combined by mode with the match of
\* the item when the include list was not empty before the call, and the
\* match of the item alone when it was empty, whatever the mode was.
C20_AddWithModeMatches ==
    [][(pc' = "addWithMode" /\ ~call'.isExclude) =>
        \A e \in Entries :
            LET itemMatches == Matches(call'.filterOrGroup, e)
                before == matchesEntry([rootGroup EXCEPT !.exclude = <<>>], e)
                includeSide ==
                    IF rootGroup.include # <<>>
                    THEN IF call'.mode = "AND" THEN before /\ itemMatches ELSE before \/ itemMatches
                    ELSE itemMatches
                noExclude == \A x \in Range(rootGroup'.exclude) : ~Matches(x, e)
            IN matchesEntry(rootGroup', e) <=> (noExclude /\ includeSide)]_vars

\* C21: for every query string, every leaf of the parsed tree (in the
\* include and in the exclude lists, at every nesting level) has a term
\* that is not the empty string.
C21_TermsNonEmpty ==
    (pc = "constructed" /\ query # Null) =>
        \A f \in Leaves(rootGroup) : f.term # <<>>

\* the position in opens of the "(" at token position p
IndexOf(opens, p) == CHOOSE k \in 1..Len(opens) : opens[k] = p

\* C22: in every tree parsed from a query string, the exclude list of every
\* group holds leaf filters only; the groups of the "(" tokens written
\* directly at a group's level are, in token order, the groups of its
\* include list, also when the token before the "(" is "-"; and tokenize
\* never joins a leading "-" with a following "(" into one token.
C22_ExcludeHoldsLeavesOnly ==
    (pc = "constructed" /\ query # Null) =>
        LET groups == Preorder(rootGroup)
            opens == Opens(tokens)
        IN /\ \A g \in Groups(rootGroup) : \A x \in Range(g.exclude) : IsFilter(x)
           /\ Len(groups) = 1 + Len(opens)
           /\ \A k \in 1..Len(groups) :
                 LET p == IF k = 1 THEN 0 ELSE opens[k - 1]
                     own == Ascending({q \in OwnLevel(tokens, p) : tokens[q] = <<"(">>})
                 IN SelectSeq(groups[k].include, IsFilterGroup)
                        = [i \in 1..Len(own) |-> groups[1 + IndexOf(opens, own[i])]]
           /\ \A p \in 1..Len(tokens) :
                 ~(Len(tokens[p]) >= 2 /\ tokens[p][1] = "-" /\ tokens[p][2] = "(")

\* "-(a)" was parsed: the "-" gave an excluded leaf of its own and the
\* bracketed group is the one include item of the root group
C22_Witness ==
    /\ pc = "constructed"
    /\ query = <<"-", "(", "a", ")">>
    /\ tokens = << <<"-">>, <<"(">>, <<"a">>, <<")">> >>
    /\ rootGroup.include = <<[FilterGroup("AND") EXCEPT !.include = <<Filter(Null, <<"a">>, ":")>>]>>
    /\ rootGroup.exclude = <<Filter(Null, <<>>, ":")>>

====
